---------------------------- MODULE Spec2Model ----------------------------
(***************************************************************************)
(* Model of tools/run_on_app.py: main and its option checks, the           *)
(* minimum-Xmx bisection (find_min_xmx), track_time_in_memory, the single  *)
(* run, and the exit-code classification, temporary directory and option   *)
(* mutation of run_with_options.  run_all is not modelled.                 *)
(*                                                                         *)
(* The script is Python 2 (tools/utils.py uses the print statement), so    *)
(* `/' on ints is floor division; TLA+ \div is floor division as well.     *)
(***************************************************************************)
EXTENDS Integers, Sequences, FiniteSets, TLC

(***************************************************************************)
(* Program constants.                                                      *)
(***************************************************************************)
COMPILERS == {"d8", "r8"}

OOM_EXIT_CODE == 42

TIMEOUT_KILL_CODE == -9

D8_NOT_WORKING == 128

R8_NOT_WORKING == 1024

DEFAULT_WORKING == 1024 * 8

DEFAULT_RANGE_SIZE == 32

(***************************************************************************)
(* Bounds of the model.                                                    *)
(***************************************************************************)
\* Largest explicit memory option value of the small configurations.
MaxMemory == 5

\* Largest explicit range size of the small configurations.
MaxRange == 3

\* Cap on the number of run_with_options calls of one run; it only cuts the
\* runs that never leave the loop (range size below 1).
MaxAttempts == 10

(***************************************************************************)
(* Option values.  optparse leaves an option that was not given at None;   *)
(* an int option that was given holds that int.                            *)
(***************************************************************************)
None == <<>>

Some(n) == <<n>>

\* Python truthiness of an int-or-None option: None and 0 are false.
Truthy(opt) == opt # None /\ opt[1] # 0

\* Raw return codes of the compiler process as handed back by toolhelper.run.
RawExitCodes == {0, 1, 17, 42, -9}

\* Configurations with the default (wide) bounds; range size stays at 32.
WideConfigs ==
    [compiler : COMPILERS,
     find_min_xmx_min_memory : {None, Some(0), Some(100), Some(128)},
     find_min_xmx_max_memory : {None, Some(0), Some(132), Some(8192)},
     find_min_xmx_range_size : {DEFAULT_RANGE_SIZE},
     find_min_xmx_archive : BOOLEAN,
     dump_args_file : BOOLEAN]

\* Configurations with small explicit bounds and any small range size,
\* zero and negative ones included (the option is a plain int).
SmallConfigs ==
    [compiler : COMPILERS,
     find_min_xmx_min_memory : {None} \cup {Some(n) : n \in 0..MaxMemory},
     find_min_xmx_max_memory : {Some(n) : n \in 1..MaxMemory},
     find_min_xmx_range_size : (-2..MaxRange) \cup {DEFAULT_RANGE_SIZE},
     find_min_xmx_archive : BOOLEAN,
     dump_args_file : BOOLEAN]

\* A string option that was not given (optparse leaves it at None).
NoneStr == "None"

\* Values of options.track_memory_to_file: not given, a file named by the
\* caller, or memory_use.tmp inside the temporary directory number d.
NoPath == <<>>

UserPath == <<"user">>

TempPath(d) == <<"temp", d>>

\* The option values ParseOptions produces when no argument is given.
DefaultOptions ==
    [compiler |-> NoneStr,
     app |-> NoneStr,
     expect_oom |-> FALSE,
     max_memory |-> None,
     find_min_xmx |-> FALSE,
     find_min_xmx_min_memory |-> None,
     find_min_xmx_max_memory |-> None,
     find_min_xmx_range_size |-> DEFAULT_RANGE_SIZE,
     find_min_xmx_archive |-> FALSE,
     timeout |-> 0,
     track_memory_to_file |-> NoPath,
     dump_args_file |-> FALSE,
     print_memoryuse |-> FALSE,
     track_time_in_memory |-> FALSE,
     track_time_in_memory_max |-> None,
     track_time_in_memory_min |-> None,
     track_time_in_memory_increment |-> DEFAULT_RANGE_SIZE]

\* The options `base' with the arguments `given' parsed on top of them.
With(base, given) ==
    [f \in DOMAIN base |-> IF f \in DOMAIN given THEN given[f] ELSE base[f]]

\* --find-min-xmx runs of a known app: the wide and the small bounds.
FindMinXmxConfigs ==
    {With(With(DefaultOptions, c), [find_min_xmx |-> TRUE, app |-> "gmail"]) :
        c \in WideConfigs \cup SmallConfigs}

\* Runs through main with and without configuration errors, by mode.
MainFindMinXmxConfigs ==
    {With(DefaultOptions, c) :
        c \in [find_min_xmx : {TRUE},
               track_time_in_memory : BOOLEAN,
               compiler : {"d8", NoneStr},
               app : {"gmail", NoneStr},
               expect_oom : BOOLEAN,
               max_memory : {None, Some(MaxMemory)},
               timeout : {0, 60},
               find_min_xmx_min_memory : {Some(1)},
               find_min_xmx_max_memory : {Some(MaxMemory)},
               find_min_xmx_range_size : {1, DEFAULT_RANGE_SIZE},
               find_min_xmx_archive : BOOLEAN]}

MainTrackTimeConfigs ==
    {With(DefaultOptions, c) :
        c \in [track_time_in_memory : {TRUE},
               compiler : {"r8", NoneStr},
               app : {"gmail", NoneStr},
               timeout : {0, 60},
               track_time_in_memory_min : {None, Some(1)},
               track_time_in_memory_max : {None, Some(2)},
               track_time_in_memory_increment : {0, 1}]}

MainSingleConfigs ==
    {With(DefaultOptions, c) :
        c \in [compiler : {"r8", NoneStr},
               app : {"gmail", NoneStr},
               expect_oom : BOOLEAN,
               max_memory : {None, Some(0), Some(MaxMemory)},
               timeout : {0, 60},
               dump_args_file : BOOLEAN]}

\* Valid runs of every mode with --print-memoryuse, --track-memory-to-file
\* and --timeout.
MemoryUseConfigs ==
    {With(DefaultOptions, c) :
        c \in [find_min_xmx : BOOLEAN,
               track_time_in_memory : BOOLEAN,
               compiler : {"d8"},
               app : {"gmail"},
               print_memoryuse : BOOLEAN,
               track_memory_to_file : {NoPath, UserPath},
               timeout : {0, 60},
               find_min_xmx_min_memory : {Some(1)},
               find_min_xmx_max_memory : {Some(MaxMemory)},
               find_min_xmx_range_size : {1},
               track_time_in_memory_min : {Some(1)},
               track_time_in_memory_max : {Some(2)},
               track_time_in_memory_increment : {1}]}

Configs ==
    FindMinXmxConfigs \cup MainFindMinXmxConfigs \cup MainTrackTimeConfigs
        \cup MainSingleConfigs \cup MemoryUseConfigs

(***************************************************************************)
(* State.                                                                  *)
(***************************************************************************)
VARIABLES
    options,        \* the parsed options of the run (run_with_options mutates them)
    version_known,  \* version id and type are in the app's VERSIONS table
    pc,             \* "main"; "loop", "done" (returned 0), "aborted" (returned 2):
                    \* find_min_xmx; "track": track_time_in_memory;
                    \* "assert_failed": its assertion raised;
                    \* "returned": main returned otherwise; "raised": exception
    not_working,    \* find_min_xmx local
    working,        \* find_min_xmx local
    range,          \* find_min_xmx local
    exit_code,      \* result of the last run_with_options
    next_candidate, \* find_min_xmx local: ceiling of the last attempt
    current,        \* track_time_in_memory local
    last,           \* the last run_with_options call: process launched, code of
                    \* toolhelper.run, marker, killed on timeout, temporary
                    \* directory, track_memory_file handed to the tool
    temp_dirs,      \* the temporary directories of run_with_options that exist
    track_temp,     \* the temporary directory of track_time_in_memory exists
    tried,          \* history: every ceiling handed to run_with_options
    succeeded,      \* history: every ceiling whose run_with_options returned 0
    launches,       \* history: number of run_with_options calls
    stdout_range,   \* the printed 'Found range' bounds, None if not printed
    archived,       \* the archived 'Found range' bounds, None if not archived
    ret             \* return value of main, None while running or raised

vars == <<options, version_known, pc, not_working, working, range, exit_code,
          next_candidate, current, last, temp_dirs, track_temp, tried,
          succeeded, launches, stdout_range, archived, ret>>

(***************************************************************************)
(* find_min_xmx: choice of the initial bounds.                             *)
(***************************************************************************)
InitialNotWorking(opts) ==
    IF Truthy(opts.find_min_xmx_min_memory)
    THEN opts.find_min_xmx_min_memory[1]
    ELSE IF opts.compiler = "d8" THEN D8_NOT_WORKING ELSE R8_NOT_WORKING

InitialWorking(opts) ==
    IF Truthy(opts.find_min_xmx_max_memory)
    THEN opts.find_min_xmx_max_memory[1]
    ELSE DEFAULT_WORKING

(***************************************************************************)
(* find_min_xmx: loop condition and candidate.                             *)
(***************************************************************************)
LoopConditionInclusive(w, nw, r) == w - nw >= r

LoopCondition(w, nw, r) == w - nw > r

NextCandidateQuarter(w, nw) == w - ((w - nw) \div 4)

NextCandidate(w, nw) == w - ((w - nw) \div 2)

(***************************************************************************)
(* run_with_options: the value returned for one call.                      *)
(*   known     version id and type exist (otherwise 1, nothing launched)   *)
(*   dump      --dump-args-file given (arguments written, nothing launched)*)
(*   raw       return code of the launched process                         *)
(*   marker    captured stderr contains 'java.lang.OutOfMemoryError'       *)
(* The exceptions raised before the launch are RunRaises below; the java   *)
(* version check is not part of this model.                                *)
(***************************************************************************)
Launches(known, dump) == known /\ ~dump

RunWithOptionsRawOnly(known, dump, raw, marker) ==
    IF ~known THEN 1
    ELSE IF dump THEN 0
    ELSE raw

RunWithOptions(known, dump, raw, marker) ==
    IF ~known THEN 1
    ELSE IF dump THEN 0
    ELSE IF raw # 0
         THEN IF marker THEN OOM_EXIT_CODE ELSE raw
         ELSE 0

(***************************************************************************)
(* find_min_xmx: interpretation of the exit code.                          *)
(***************************************************************************)
IsOtherFailureOnlyOne(code) == code = 1

IsOtherFailure(code) ==
    code # 0 /\ code \notin {OOM_EXIT_CODE, TIMEOUT_KILL_CODE}

FailureReturnPropagated(code) == code

FailureReturn(code) == 2

NewWorkingOnTimeout(code, w, cand) ==
    IF code = 0 \/ code = TIMEOUT_KILL_CODE THEN cand ELSE w

NewWorking(code, w, cand) == IF code = 0 THEN cand ELSE w

NewNotWorkingTimeoutIgnored(code, nw, cand) ==
    IF code = OOM_EXIT_CODE THEN cand ELSE nw

NewNotWorking(code, nw, cand) ==
    IF code = 0 THEN nw
    ELSE IF code = TIMEOUT_KILL_CODE THEN cand
    ELSE cand

(***************************************************************************)
(* find_min_xmx: the assertion after the loop.                             *)
(***************************************************************************)
AssertRangeStrict(w, nw, r) == w - nw < r

AssertRange(w, nw, r) == w - nw <= r

(***************************************************************************)
(* main: the option checks and the value returned for a single run.        *)
(***************************************************************************)
MainError(opts) ==
    \/ opts.expect_oom /\ ~Truthy(opts.max_memory)
    \/ opts.expect_oom /\ opts.timeout # 0
    \/ opts.find_min_xmx /\ opts.track_time_in_memory

ExpectOomReturnCode(expect_oom, code) == code

ExpectOomReturn(expect_oom, code) ==
    IF expect_oom
    THEN IF code = OOM_EXIT_CODE THEN 0 ELSE 1
    ELSE code

(***************************************************************************)
(* track_time_in_memory: the checks of its bounds.                         *)
(***************************************************************************)
TrackTimeError(opts) ==
    \/ ~Truthy(opts.track_time_in_memory_min)
    \/ ~Truthy(opts.track_time_in_memory_max)
    \/ opts.track_time_in_memory_increment = 0

(***************************************************************************)
(* run_with_options: the exceptions raised before anything is launched     *)
(* (get_version_and_data for a missing app, the compiler check).           *)
(***************************************************************************)
RunRaises(opts) == opts.app = NoneStr \/ opts.compiler \notin COMPILERS

(***************************************************************************)
(* toolhelper.run: the return code of the process.  A process that runs    *)
(* past a non-zero timeout is killed and reports TIMEOUT_KILL_CODE.        *)
(***************************************************************************)
ToolhelperRun(timeout, timed_out, raw) ==
    IF timeout > 0 /\ timed_out THEN TIMEOUT_KILL_CODE ELSE raw

(***************************************************************************)
(* run_with_options: the temporary directory d and the memory file.        *)
(***************************************************************************)
\* utils.TempDir.__exit__
TempDirExit(dirs, d) == dirs \ {d}

RunTempDirsLeakOnFailure(dirs, d, code) ==
    IF code # 0 THEN dirs \cup {d} ELSE TempDirExit(dirs \cup {d}, d)

\* The `with utils.TempDir() as temp' block: every way out of it, the
\* returns inside it included, runs __exit__.
RunTempDirs(dirs, d, code) == TempDirExit(dirs \cup {d}, d)

\* options.track_memory_to_file after lines 503-505, inside directory d.
TrackMemoryFile(opts, d) ==
    IF opts.print_memoryuse /\ opts.track_memory_to_file = NoPath
    THEN TempPath(d)
    ELSE opts.track_memory_to_file

NotLaunched ==
    [launched |-> FALSE, raw |-> 0, marker |-> FALSE, timed_out |-> FALSE,
     temp |-> 0, track_memory_file |-> NoPath]

(***************************************************************************)
(* Actions.                                                                *)
(***************************************************************************)
Init ==
    /\ options \in Configs
    /\ version_known \in BOOLEAN
    /\ pc = "main"
    /\ not_working = 0
    /\ working = 0
    /\ range = 0
    /\ exit_code = 0
    /\ next_candidate = 0
    /\ current = 0
    /\ last = NotLaunched
    /\ temp_dirs = {}
    /\ track_temp = FALSE
    /\ tried = {}
    /\ succeeded = {}
    /\ launches = 0
    /\ stdout_range = None
    /\ archived = None
    /\ ret = None

\* One call of run_with_options that does not raise: the exit code, the
\* temporary directory, the mutation of options.
\* The process is killed on timeout only if a timeout is set.
RunWithOptionsCall(raw, marker, timed_out) ==
    /\ timed_out => options.timeout > 0
    /\ ~RunRaises(options)
    /\ LET d == launches + 1
           code == ToolhelperRun(options.timeout, timed_out, raw)
       IN  /\ launches' = launches + 1
           /\ exit_code' = RunWithOptions(version_known,
                                          options.dump_args_file, code, marker)
           /\ IF Launches(version_known, options.dump_args_file)
              THEN /\ last' = [launched |-> TRUE, raw |-> code,
                               marker |-> marker,
                               timed_out |-> (options.timeout > 0 /\ timed_out),
                               temp |-> d,
                               track_memory_file |->
                                   TrackMemoryFile(options, d)]
                   /\ options' = [options EXCEPT !.track_memory_to_file =
                                      TrackMemoryFile(options, d)]
                   /\ temp_dirs' = RunTempDirs(temp_dirs, d, code)
              ELSE /\ last' = NotLaunched
                   /\ UNCHANGED <<options, temp_dirs>>

\* One call of run_with_options that raises before the launch.
RunWithOptionsRaise ==
    /\ RunRaises(options)
    /\ launches' = launches + 1
    /\ last' = NotLaunched
    /\ pc' = "raised"
    /\ UNCHANGED <<options, temp_dirs, exit_code, ret>>

\* main: one of the option checks raises.
MainRaise ==
    /\ pc = "main"
    /\ MainError(options)
    /\ pc' = "raised"
    /\ UNCHANGED <<options, version_known, not_working, working, range,
                   exit_code, next_candidate, current, last, temp_dirs,
                   track_temp, tried, succeeded, launches, stdout_range,
                   archived, ret>>

\* main dispatching to find_min_xmx, up to the first test of the loop
\* condition.
EnterFindMinXmx ==
    /\ pc = "main"
    /\ ~MainError(options)
    /\ options.find_min_xmx
    /\ pc' = "loop"
    /\ not_working' = InitialNotWorking(options)
    /\ working' = InitialWorking(options)
    /\ exit_code' = 0
    /\ range' = options.find_min_xmx_range_size
    /\ UNCHANGED <<options, version_known, next_candidate, current, last,
                   temp_dirs, track_temp, tried, succeeded, launches,
                   stdout_range, archived, ret>>

\* One iteration of the while loop: the candidate, the attempt, the update.
Iterate(raw, marker, timed_out) ==
    /\ pc = "loop"
    /\ launches < MaxAttempts
    /\ LoopCondition(working, not_working, range)
    /\ LET cand == NextCandidate(working, not_working)
       IN  /\ next_candidate' = cand
           /\ tried' = tried \cup {cand}
           /\ \/ /\ RunWithOptionsRaise
                 /\ UNCHANGED <<not_working, working, succeeded>>
              \/ /\ RunWithOptionsCall(raw, marker, timed_out)
                 /\ succeeded' = IF exit_code' = 0 THEN succeeded \cup {cand}
                                 ELSE succeeded
                 /\ IF IsOtherFailure(exit_code')
                    THEN /\ pc' = "aborted"
                         /\ ret' = Some(FailureReturn(exit_code'))
                         /\ UNCHANGED <<not_working, working>>
                    ELSE /\ pc' = "loop"
                         /\ ret' = ret
                         /\ working' = NewWorking(exit_code', working, cand)
                         /\ not_working' =
                                NewNotWorking(exit_code', not_working, cand)
    /\ UNCHANGED <<version_known, range, current, track_temp, stdout_range,
                   archived>>

\* The loop condition is false: assert, print, archive, return 0.  The
\* archive step looks the app up and raises for a missing one.
Finish ==
    /\ pc = "loop"
    /\ ~LoopCondition(working, not_working, range)
    /\ IF ~AssertRange(working, not_working, range)
       THEN /\ pc' = "assert_failed"
            /\ UNCHANGED <<stdout_range, archived, ret>>
       ELSE /\ stdout_range' = <<not_working, working>>
            /\ IF options.find_min_xmx_archive /\ options.app = NoneStr
               THEN /\ pc' = "raised"
                    /\ UNCHANGED <<archived, ret>>
               ELSE /\ pc' = "done"
                    /\ archived' = IF options.find_min_xmx_archive
                                   THEN <<not_working, working>> ELSE None
                    /\ ret' = Some(0)
    /\ UNCHANGED <<options, version_known, not_working, working, range,
                   exit_code, next_candidate, current, last, temp_dirs,
                   track_temp, tried, succeeded, launches>>

\* main dispatching to track_time_in_memory, up to the first test of its
\* loop condition.
EnterTrackTime ==
    /\ pc = "main"
    /\ ~MainError(options)
    /\ ~options.find_min_xmx
    /\ options.track_time_in_memory
    /\ IF TrackTimeError(options)
       THEN /\ pc' = "raised"
            /\ UNCHANGED <<current, track_temp>>
       ELSE /\ pc' = "track"
            /\ current' = options.track_time_in_memory_min[1]
            /\ track_temp' = TRUE
    /\ UNCHANGED <<options, version_known, not_working, working, range,
                   exit_code, next_candidate, last, temp_dirs, tried,
                   succeeded, launches, stdout_range, archived, ret>>

\* One iteration of the track_time_in_memory loop.
TrackTimeStep(raw, marker, timed_out) ==
    /\ pc = "track"
    /\ launches < MaxAttempts
    /\ current <= options.track_time_in_memory_max[1]
    /\ \/ /\ RunWithOptionsRaise
          /\ track_temp' = FALSE
          /\ UNCHANGED current
       \/ /\ RunWithOptionsCall(raw, marker, timed_out)
          /\ current' = current + options.track_time_in_memory_increment
          /\ UNCHANGED <<pc, ret, track_temp>>
    /\ UNCHANGED <<version_known, not_working, working, range,
                   next_candidate, tried, succeeded, stdout_range, archived>>

\* The track_time_in_memory loop is over: return 0.
TrackTimeFinish ==
    /\ pc = "track"
    /\ ~(current <= options.track_time_in_memory_max[1])
    /\ pc' = "returned"
    /\ track_temp' = FALSE
    /\ ret' = Some(0)
    /\ UNCHANGED <<options, version_known, not_working, working, range,
                   exit_code, next_candidate, current, last, temp_dirs,
                   tried, succeeded, launches, stdout_range, archived>>

\* main running the compiler once (lines 353-356).
RunSingle(raw, marker, timed_out) ==
    /\ pc = "main"
    /\ ~MainError(options)
    /\ ~options.find_min_xmx
    /\ ~options.track_time_in_memory
    /\ \/ RunWithOptionsRaise
       \/ /\ RunWithOptionsCall(raw, marker, timed_out)
          /\ pc' = "returned"
          /\ ret' = Some(ExpectOomReturn(options.expect_oom, exit_code'))
    /\ UNCHANGED <<version_known, not_working, working, range,
                   next_candidate, current, track_temp, tried, succeeded,
                   stdout_range, archived>>

Next ==
    \/ MainRaise
    \/ EnterFindMinXmx
    \/ \E raw \in RawExitCodes, marker \in BOOLEAN, timed_out \in BOOLEAN :
           Iterate(raw, marker, timed_out)
    \/ Finish
    \/ EnterTrackTime
    \/ \E raw \in RawExitCodes, marker \in BOOLEAN, timed_out \in BOOLEAN :
           TrackTimeStep(raw, marker, timed_out)
    \/ TrackTimeFinish
    \/ \E raw \in RawExitCodes, marker \in BOOLEAN, timed_out \in BOOLEAN :
           RunSingle(raw, marker, timed_out)

Spec == Init /\ [][Next]_vars

(***************************************************************************)
(* Vocabulary of the properties.                                           *)
(***************************************************************************)
not_working0 == InitialNotWorking(options)

working0 == InitialWorking(options)

range_size == options.find_min_xmx_range_size

InFindMinXmx == pc \in {"loop", "done", "aborted"}

\* main went into find_min_xmx (however the run ended).
FindMinXmxRun ==
    /\ pc # "main"
    /\ options.find_min_xmx
    /\ ~options.track_time_in_memory
    /\ ~(options.expect_oom /\ (~Truthy(options.max_memory)
                                 \/ options.timeout # 0))

\* The premises the spec states for its testable properties.
ProperInput == not_working0 < working0 /\ range_size >= 1

\* Candidate true boundaries the properties quantify over.
Boundaries == (0..(MaxMemory + 1)) \cup {129, 2000, 4000, 8192}

\* Every attempt so far returned Success exactly at the ceilings >= B, and
\* OutOfMemory or Timeout below B.
Monotone(B) ==
    /\ pc # "aborted"
    /\ \A c \in succeeded : c >= B
    /\ \A c \in tried \ succeeded : c < B

RECURSIVE Pow2(_)
Pow2(k) == IF k = 0 THEN 1 ELSE 2 * Pow2(k - 1)

\* ceil(log2(d / r)) for r >= 1, as the smallest k >= 0 with r * 2^k >= d.
IterationBound(d, r) ==
    CHOOSE k \in 0..14 :
        /\ r * Pow2(k) >= d
        /\ \A j \in 0..(k - 1) : r * Pow2(j) < d

(***************************************************************************)
(* C1.  Claim: at every point of a find_min_xmx run, for all compilers and *)
(* all option values, not_working < working.                               *)
(* The statement fails for option values the script accepts (a minimum not *)
(* below the maximum; a range size of 0).  Amended: when the initial       *)
(* bounds satisfy not_working0 < working0 and range_size >= 1,             *)
(* not_working < working holds at every point of the run.                  *)
(***************************************************************************)
C1_Original == InFindMinXmx => not_working < working

C1_BoundsOrdered ==
    (InFindMinXmx /\ ProperInput) => not_working < working

C1_Witness ==
    /\ pc = "done"
    /\ ProperInput
    /\ not_working # not_working0
    /\ working # working0
    /\ not_working < working

(***************************************************************************)
(* C2.  With not_working0 < B <= working0, range_size >= 1 and attempts    *)
(* that succeed exactly at ceilings >= B (OutOfMemory or Timeout below),   *)
(* the run keeps B bracketed, stays within the iteration bound and ends    *)
(* with status 0, not_working < B <= working and a width <= range_size.    *)
(***************************************************************************)
C2_MonotoneBracket ==
    \A B \in Boundaries :
        (InFindMinXmx /\ ProperInput /\ not_working0 < B /\ B <= working0
           /\ Monotone(B))
        => /\ not_working < B
           /\ B <= working
           /\ launches <= IterationBound(working0 - not_working0, range_size)
           /\ (pc = "done" =>
                 /\ ret = Some(0)
                 /\ working - not_working <= range_size
                 /\ stdout_range = <<not_working, working>>)

C2_Witness ==
    /\ pc = "done"
    /\ not_working0 = 128
    /\ working0 = 8192
    /\ range_size = 32
    /\ Monotone(4000)
    /\ launches >= 1
    /\ not_working < 4000
    /\ 4000 <= working
    /\ working - not_working <= 32

(***************************************************************************)
(* C3.  With not_working0 < working0 and range_size >= 1 the loop runs at  *)
(* most ceil(log2((working0 - not_working0) / range_size)) iterations:     *)
(* the number of attempts never exceeds that bound, and once it is reached *)
(* the loop condition is false (or the run was aborted).                   *)
(***************************************************************************)
C3_IterationBound ==
    (InFindMinXmx /\ ProperInput)
    => LET k == IterationBound(working0 - not_working0, range_size)
       IN  /\ launches <= k
           /\ (launches = k =>
                 (pc # "loop" \/ working - not_working <= range_size))

C3_Witness ==
    /\ pc = "done"
    /\ ProperInput
    /\ launches = 8
    /\ launches = IterationBound(working0 - not_working0, range_size)

(***************************************************************************)
(* C4.  Claim: in every executed iteration, for all initial bounds and all *)
(* range_size values, not_working < candidate < working.                   *)
(* The statement fails for range_size <= 0 (width 1: candidate = working). *)
(* Amended: for every range_size >= 1 and all initial bounds, every        *)
(* executed iteration has not_working < candidate < working.               *)
(***************************************************************************)
C4_Original ==
    [][(pc = "loop" /\ launches' > launches) =>
         (not_working < next_candidate' /\ next_candidate' < working)]_vars

C4_StrictProgress ==
    [][(pc = "loop" /\ launches' > launches /\ range_size >= 1) =>
         (not_working < next_candidate' /\ next_candidate' < working)]_vars

C4_Witness ==
    /\ launches >= 2
    /\ range_size = 1
    /\ working - not_working = 1
    /\ next_candidate \in {not_working, working}

(***************************************************************************)
(* C5.  Whatever the outcomes, working is working0 or a ceiling whose      *)
(* attempt returned Success; so if Success is never returned below a       *)
(* boundary B <= working0, working is never below B.                       *)
(***************************************************************************)
C5_WorkingSucceeded ==
    InFindMinXmx =>
        /\ (working = working0 \/ working \in succeeded)
        /\ \A B \in Boundaries :
               (B <= working0 /\ \A c \in succeeded : c >= B)
               => working >= B

\* A run that ended after a Success was followed by a Timeout.
C5_Witness ==
    /\ pc = "done"
    /\ working \in succeeded
    /\ working # working0
    /\ last.launched
    /\ exit_code = TIMEOUT_KILL_CODE
    /\ not_working = next_candidate

(***************************************************************************)
(* C6.  An attempt that returns anything but Success, OutOfMemory or       *)
(* Timeout stops the search: the bounds keep their values, nothing is      *)
(* printed or archived, the return value is set and is not 0, and no step  *)
(* follows (no further attempt, no later result).                          *)
(***************************************************************************)
C6_ShortCircuit ==
    [][/\ (pc = "loop" /\ launches' > launches
             /\ exit_code' \notin {0, OOM_EXIT_CODE, TIMEOUT_KILL_CODE})
          => /\ pc' = "aborted"
             /\ not_working' = not_working
             /\ working' = working
             /\ stdout_range' = None
             /\ archived' = None
             /\ ret' # None
             /\ ret' # Some(0)
       /\ pc = "aborted"
          => /\ pc' = "aborted"
             /\ launches' = launches
             /\ tried' = tried
             /\ not_working' = not_working
             /\ working' = working
             /\ stdout_range' = stdout_range
             /\ archived' = archived
             /\ ret' = ret]_vars

C6_Witness ==
    /\ pc = "aborted"
    /\ launches >= 2
    /\ last.launched
    /\ exit_code = 17
    /\ next_candidate \notin {not_working, working}
    /\ stdout_range = None
    /\ ret # Some(0)

(***************************************************************************)
(* C7.  Claim: the error find_min_xmx surfaces for OtherFailure(code)      *)
(* carries that code.                                                      *)
(* The code returns the fixed status 2.  Amended: when an attempt returns  *)
(* OtherFailure(code), find_min_xmx (and main, which returns its value)    *)
(* returns the status 2 whatever the code is; the code is not carried.     *)
(***************************************************************************)
C7_Original == pc = "aborted" => ret = Some(exit_code)

C7_FixedStatus == pc = "aborted" => ret = Some(2)

C7_Witness ==
    /\ pc = "aborted"
    /\ launches = 1
    /\ last.launched
    /\ exit_code = 17
    /\ ret = Some(2)

(***************************************************************************)
(* C8.  Claim: no ceiling is attempted twice in one run, whatever the      *)
(* outcomes.                                                               *)
(* The statement fails for range_size <= 0 (at width 1 the candidate is    *)
(* working itself and is attempted again after a Success).  Amended: for   *)
(* range_size >= 1, every candidate differs from all earlier candidates.   *)
(***************************************************************************)
C8_Original == InFindMinXmx => Cardinality(tried) = launches

C8_NoRetry ==
    (InFindMinXmx /\ range_size >= 1) => Cardinality(tried) = launches

C8_Witness ==
    /\ pc = "done"
    /\ range_size >= 1
    /\ launches >= 8
    /\ Cardinality(tried) = launches

(***************************************************************************)
(* C9.  Claim: an attempt whose process exits non-zero, was not killed by  *)
(* the timeout signal and left no out-of-memory marker on stderr aborts    *)
(* the search, and not_working is raised on the OutOfMemory path only for  *)
(* attempts whose stderr contained the marker.                             *)
(***************************************************************************)
C9_MarkerOnly ==
    (InFindMinXmx /\ launches > 0 /\ last.launched)
    => /\ (last.raw # 0 /\ last.raw # TIMEOUT_KILL_CODE /\ ~last.marker)
          => pc = "aborted"
       /\ (exit_code = OOM_EXIT_CODE /\ not_working = next_candidate)
          => last.marker

(***************************************************************************)
(* C10.  run_with_options returns OOM_EXIT_CODE for every launched process *)
(* that exits non-zero with the marker on stderr, whatever the raw code,   *)
(* and returns 0 exactly when the process exits with status 0.             *)
(***************************************************************************)
C10_Classification ==
    (launches > 0 /\ last.launched)
    => /\ (last.raw # 0 /\ last.marker) => exit_code = OOM_EXIT_CODE
       /\ exit_code = 0 <=> last.raw = 0

\* A timeout-killed process with the marker is reported as out of memory.
C10_Witness ==
    /\ launches > 0
    /\ last.launched
    /\ last.raw = TIMEOUT_KILL_CODE
    /\ last.marker
    /\ exit_code = OOM_EXIT_CODE

(***************************************************************************)
(* C11.  Claim: find_min_xmx takes the Timeout branch for every attempt    *)
(* whose process was killed for exceeding the timeout, and for no other.   *)
(* Both directions fail.  Amended: the Timeout branch is taken exactly     *)
(* when the process's return code is -9 and its stderr holds no            *)
(* out-of-memory marker.  A process killed for exceeding the timeout has   *)
(* return code -9 and takes the branch unless its stderr holds the marker  *)
(* (then the attempt is out of memory); a return code of -9 that is not    *)
(* due to the timeout takes the branch as well.                            *)
(***************************************************************************)
C11_Original ==
    (InFindMinXmx /\ launches > 0 /\ last.launched)
    => (exit_code = TIMEOUT_KILL_CODE <=> last.timed_out)

C11_TimeoutBranch ==
    (InFindMinXmx /\ launches > 0 /\ last.launched)
    => /\ exit_code = TIMEOUT_KILL_CODE
          <=> (last.raw = TIMEOUT_KILL_CODE /\ ~last.marker)
       /\ exit_code = TIMEOUT_KILL_CODE
          => (pc # "aborted" /\ not_working = next_candidate)
       /\ last.timed_out => last.raw = TIMEOUT_KILL_CODE
       /\ (last.timed_out /\ last.marker) => exit_code = OOM_EXIT_CODE

C11_Witness ==
    /\ InFindMinXmx
    /\ launches >= 2
    /\ last.launched
    /\ last.timed_out
    /\ ~last.marker
    /\ exit_code = TIMEOUT_KILL_CODE
    /\ not_working = next_candidate

(***************************************************************************)
(* C12.  When working0 - not_working0 <= range_size, find_min_xmx makes no *)
(* attempt, keeps the initial bounds and reports exactly that pair.        *)
(***************************************************************************)
C12_NoAttempts ==
    (FindMinXmxRun /\ working0 - not_working0 <= range_size)
    => /\ launches = 0
       /\ tried = {}
       /\ ~last.launched
       /\ not_working = not_working0
       /\ working = working0
       /\ pc \notin {"aborted", "assert_failed"}
       /\ stdout_range \in {None, <<not_working0, working0>>}
       /\ pc = "done" => (stdout_range = <<not_working0, working0>>
                            /\ ret = Some(0))

C12_Witness ==
    /\ pc = "done"
    /\ not_working0 = 100
    /\ working0 = 132
    /\ range_size = 32
    /\ launches = 0
    /\ stdout_range = <<100, 132>>

(***************************************************************************)
(* C13.  The assertion after the loop never fails, and a run that returns  *)
(* 0 has working - not_working <= range_size and printed (and, if asked,   *)
(* archived) exactly the bounds it ended with.                             *)
(***************************************************************************)
C13_FoundRange ==
    /\ pc # "assert_failed"
    /\ pc = "done"
       => /\ ret = Some(0)
          /\ working - not_working <= range_size
          /\ stdout_range = <<not_working, working>>
          /\ archived = IF options.find_min_xmx_archive
                        THEN <<not_working, working>> ELSE None

C13_Witness ==
    /\ pc = "done"
    /\ launches >= 2
    /\ working - not_working = range_size
    /\ stdout_range = <<not_working, working>>
    /\ archived = <<not_working, working>>

(***************************************************************************)
(* C14.  Claim: every configuration error of a run through main            *)
(* (conflicting options, --expect-oom without --max-memory, a missing app  *)
(* or compiler, missing track-time bounds) is reported before any attempt: *)
(* such a run launches no attempt and does not end with status 0.          *)
(***************************************************************************)
ConfigurationError ==
    \/ options.find_min_xmx /\ options.track_time_in_memory
    \/ options.expect_oom /\ options.timeout # 0
    \/ options.expect_oom /\ ~Truthy(options.max_memory)
    \/ options.app = NoneStr
    \/ options.compiler = NoneStr
    \/ /\ options.track_time_in_memory
       /\ ~options.find_min_xmx
       /\ \/ ~Truthy(options.track_time_in_memory_min)
          \/ ~Truthy(options.track_time_in_memory_max)
          \/ options.track_time_in_memory_increment = 0

C14_ConfigErrorsFailFast ==
    ConfigurationError
    => /\ ~last.launched
       /\ temp_dirs = {}
       /\ ret # Some(0)

(***************************************************************************)
(* C15.  Claim: each executed iteration that does not abort changes        *)
(* exactly one bound (Success: working; OutOfMemory and Timeout:           *)
(* not_working, alike), so not_working never decreases, working never      *)
(* increases and, for range_size >= 1, the width strictly decreases.       *)
(* With range_size <= 0 an iteration can leave both bounds as they are or  *)
(* move a bound the wrong way.  Amended: Success sets working to the       *)
(* candidate and leaves not_working; OutOfMemory and Timeout set           *)
(* not_working to the candidate and leave working; for range_size >= 1     *)
(* exactly one bound changes, not_working grows, working shrinks and the   *)
(* width strictly decreases.                                               *)
(***************************************************************************)
IterationDone == pc = "loop" /\ launches' > launches /\ pc' = "loop"

IterationFrame ==
    /\ exit_code' = 0 =>
           (working' = next_candidate' /\ not_working' = not_working)
    /\ exit_code' \in {OOM_EXIT_CODE, TIMEOUT_KILL_CODE} =>
           (not_working' = next_candidate' /\ working' = working)

IterationNarrows ==
    /\ (working' # working) # (not_working' # not_working)
    /\ not_working' >= not_working
    /\ working' <= working

C15_Original ==
    [][IterationDone =>
         /\ IterationFrame
         /\ IterationNarrows
         /\ range_size >= 1 =>
                working' - not_working' < working - not_working]_vars

C15_OneBoundMoves ==
    [][IterationDone =>
         /\ IterationFrame
         /\ range_size >= 1 =>
                /\ IterationNarrows
                /\ working' - not_working' < working - not_working]_vars

C15_Witness ==
    /\ pc = "loop"
    /\ range_size >= 1
    /\ launches >= 2
    /\ working \in succeeded
    /\ exit_code = TIMEOUT_KILL_CODE
    /\ not_working = next_candidate
    /\ not_working > not_working0
    /\ working < working0

(***************************************************************************)
(* C16.  Every run_with_options call that created a temporary directory    *)
(* has removed it when it returns: between attempts and at the end of a    *)
(* run no temporary directory of an attempt exists.                        *)
(***************************************************************************)
C16_NoTempDirLeft == temp_dirs = {}

C16_Witness ==
    /\ pc = "done"
    /\ launches >= 2
    /\ last.launched
    /\ last.timed_out
    /\ last.temp = launches
    /\ temp_dirs = {}

(***************************************************************************)
(* C17.  Claim: with --print-memoryuse and no --track-memory-to-file, the  *)
(* memory file handed to the tool in every attempt of a multi-attempt run  *)
(* lies in the temporary directory of that same attempt.                   *)
(***************************************************************************)
C17_MemoryFileInOwnTemp ==
    (launches > 0 /\ last.launched /\ options.print_memoryuse
       /\ last.track_memory_file # UserPath)
    => last.track_memory_file = TempPath(last.temp)

(***************************************************************************)
(* C18.  A single run through main with --expect-oom returns 0 exactly     *)
(* when run_with_options reported out of memory, and 1 otherwise (also     *)
(* for a successful compilation).                                          *)
(***************************************************************************)
SingleRun == ~options.find_min_xmx /\ ~options.track_time_in_memory

C18_ExpectOom ==
    (pc = "returned" /\ SingleRun /\ options.expect_oom)
    => /\ ret \in {Some(0), Some(1)}
       /\ ret = Some(0) <=> exit_code = OOM_EXIT_CODE

C18_Witness ==
    /\ pc = "returned"
    /\ SingleRun
    /\ options.expect_oom
    /\ last.launched
    /\ last.raw = 0
    /\ exit_code = 0
    /\ ret = Some(1)

=============================================================================
